---- MODULE Spec2Model ----
(***************************************************************************)
(* Matchify (src/main.py): a Streamlit script with two stateful pages.     *)
(*   - "Job Description Analysis": extract_text_from_pdf, memoised by      *)
(*     @st.cache_data, feeds generate_text, which builds one prompt and    *)
(*     calls the generative model.                                         *)
(*   - "virtual assistant": chatbot keeps st.session_state                 *)
(*     .conversation_history and renders it as the prompt context.         *)
(* One action models one script run (one user interaction) of one browser  *)
(* session.  The PDF reader and the generative model are collaborators:    *)
(* every call of either may succeed or raise, chosen nondeterministically. *)
(* Python strings are TLA+ strings; "\o" is "+", and str.join / str.strip  *)
(* are computed character by character.                                    *)
(***************************************************************************)
EXTENDS Integers, Sequences, FiniteSets, TLC

VARIABLES
    cache,                 \* the st.cache_data store of extract_text_from_pdf (process-wide)
    storedBy,              \* history: the session whose script run stored each cache entry
    pdfReaderCalls,        \* history: PdfReader invocations, per session and file content
    has_history,           \* 'conversation_history' in st.session_state, per session
    conversation_history,  \* st.session_state.conversation_history, per session
    last                   \* observation of the most recent script run

vars == <<cache, storedBy, pdfReaderCalls, has_history, conversation_history, last>>

(***************************************************************************)
(* Bounds of the model.                                                    *)
(***************************************************************************)
MaxTurns == 3        \* a chat turn is accepted while the log stays within MaxTurns
MaxFiles == 2        \* files per Analyze request

Sessions == {"A", "B"}

(***************************************************************************)
(* Uploaded files: st.file_uploader hands the script UploadedFile objects, *)
(* each a name plus the raw bytes (getvalue()).  Two of the files carry    *)
(* the same bytes under different names; one is a scan with no text.       *)
(***************************************************************************)
UploadedFiles ==
    { [name |-> "a.pdf", content |-> "bytes1"],
      [name |-> "b.pdf", content |-> "bytes1"],
      [name |-> "c.pdf", content |-> "bytes2"],
      [name |-> "d.pdf", content |-> "bytes3"] }

Contents == { f.content : f \in UploadedFiles }

\* page.extract_text() of every page of the document, when PdfReader succeeds
PageTexts ==
    [ bytes1 |-> <<"Java ", "SQL">>,
      bytes2 |-> <<"Rust">>,
      bytes3 |-> <<"", "">> ]

\* hashlib.md5(...).hexdigest(), as a table over the contents of the model
MD5 ==
    [ bytes1 |-> "9f1c",
      bytes2 |-> "03ab",
      bytes3 |-> "d41d" ]

JobDescriptions == {"Backend dev"}
UserInputs == {"hi", "bye"}
ChatReplies == {" hello\n"}        \* response.text of a chat call, before .strip()
AnalysisReplies == {"| Skill | Match |"}   \* response.text of an analysis call

None == "<None>"                   \* Python None (no extracted text is ever this string)
NoCall == "<no call>"              \* no prompt was sent to the model
PdfError == "EOF marker not found" \* str(e) of a PdfReader failure
GenError == "quota exceeded"       \* str(e) of a generation failure

UploadError == "Please upload at least one PDF file."
Fallback == "Sorry, I couldn't process that request."

IsPrefix(s, t) == Len(s) <= Len(t) /\ SubSeq(t, 1, Len(s)) = s

(***************************************************************************)
(* Python string helpers.                                                  *)
(***************************************************************************)
RECURSIVE join(_, _)
\* sep.join(parts)
join(sep, parts) ==
    IF parts = <<>> THEN ""
    ELSE IF Len(parts) = 1 THEN parts[1]
    ELSE parts[1] \o sep \o join(sep, Tail(parts))

Whitespace == {" ", "\n", "\t"}

RECURSIVE lstrip(_)
lstrip(s) == IF s # "" /\ Head(s) \in Whitespace THEN lstrip(Tail(s)) ELSE s

RECURSIVE rstrip(_)
rstrip(s) ==
    IF s # "" /\ SubSeq(s, Len(s), Len(s)) \in Whitespace
    THEN rstrip(SubSeq(s, 1, Len(s) - 1))
    ELSE s

\* str.strip()
strip(s) == rstrip(lstrip(s))

\* Python truthiness of a str-or-None value
Truthy(v) == v # None /\ v # ""

(***************************************************************************)
(* Document extraction and its memoisation.                                *)
(***************************************************************************)
hash_pdf(uploaded_file) == MD5[uploaded_file.content]

\* The body of extract_text_from_pdf; ok = PdfReader and extract_text raised nothing.
\* The except clause turns every failure into the ordinary return value (None, None).
extract_text_from_pdf(uploaded_file, ok) ==
    IF ok
    THEN [ value |-> <<join("", PageTexts[uploaded_file.content]), hash_pdf(uploaded_file)>>,
           shown |-> <<>> ]
    ELSE [ value |-> <<None, None>>,
           shown |-> <<"Error reading PDF: " \o PdfError>> ]

\* @st.cache_data keys an entry by the function's argument, the UploadedFile
\* itself (its name and its bytes); file_hash is computed inside the function
\* and is never the key.
CacheKey(uploaded_file) == <<uploaded_file.name, uploaded_file.content>>

CacheKeys == { CacheKey(f) : f \in UploadedFiles }

Absent == [value |-> <<>>, shown |-> <<>>]      \* no entry under the key

\* One call of the decorated function: answer from the store when the key is
\* present, else run the body and store whatever it RETURNS.  The stored
\* entry keeps the st.error element the body emitted, replayed on a hit.
cache_data(uploaded_file, store, ok) ==
    LET key == CacheKey(uploaded_file) IN
    IF store[key] # Absent
    THEN [ value |-> store[key].value, shown |-> store[key].shown,
           store |-> store, hit |-> TRUE ]
    ELSE LET r == extract_text_from_pdf(uploaded_file, ok) IN
         [ value |-> r.value, shown |-> r.shown,
           store |-> [store EXCEPT ![key] = r], hit |-> FALSE ]

(***************************************************************************)
(* generate_text (Job Description Analysis).                               *)
(***************************************************************************)
AnalysisPrompt(job_description, combined_pdf_text) ==
    "Assess candidate fit for the job description. Consider substitutes for skills, experience, match percentage in tabular form:\n\n"
    \o "Skills: Match or equivalent technologies.\n"
    \o "Experience: Relevance to key responsibilities.\n"
    \o "Fit: Suitability based on experience and skills.\n\n"
    \o "Job Description:\n" \o job_description
    \o "\n\nResume Content:\n" \o combined_pdf_text

\* Variant of the loop in which a failed file ends it (the exception is not
\* contained by extract_text_from_pdf and the remaining files are never read).
RECURSIVE ForEachFile_aborting(_, _, _, _)
ForEachFile_aborting(uploaded_files, pdfOk, i, acc) ==
    IF i > Len(uploaded_files) THEN acc
    ELSE LET uploaded_file == uploaded_files[i]
             r == cache_data(uploaded_file, acc.store, pdfOk[i])
             pdf_text == r.value[1]
             file_hash == r.value[2]
             keep == Truthy(pdf_text)
             next == [ store |-> r.store,
                       combined_pdf_text |-> IF keep THEN acc.combined_pdf_text \o pdf_text \o "\n\n"
                                                     ELSE acc.combined_pdf_text,
                       file_hashes |-> IF keep THEN Append(acc.file_hashes, file_hash)
                                               ELSE acc.file_hashes,
                       shown |-> acc.shown \o r.shown,
                       lookups |-> Append(acc.lookups,
                                     [ file |-> uploaded_file, hit |-> r.hit,
                                       pdf_text |-> pdf_text ]) ]
         IN IF pdf_text = None THEN next
            ELSE ForEachFile_aborting(uploaded_files, pdfOk, i + 1, next)

\* The for loop of generate_text from file i on.  acc carries the cache store,
\* combined_pdf_text, file_hashes, the elements shown so far and, for
\* observation, one record per call of extract_text_from_pdf.
RECURSIVE ForEachFile(_, _, _, _)
ForEachFile(uploaded_files, pdfOk, i, acc) ==
    IF i > Len(uploaded_files) THEN acc
    ELSE LET uploaded_file == uploaded_files[i]
             r == cache_data(uploaded_file, acc.store, pdfOk[i])
             pdf_text == r.value[1]
             file_hash == r.value[2]
             keep == Truthy(pdf_text)
         IN ForEachFile(uploaded_files, pdfOk, i + 1,
              [ store |-> r.store,
                combined_pdf_text |-> IF keep THEN acc.combined_pdf_text \o pdf_text \o "\n\n"
                                              ELSE acc.combined_pdf_text,
                file_hashes |-> IF keep THEN Append(acc.file_hashes, file_hash)
                                        ELSE acc.file_hashes,
                shown |-> acc.shown \o r.shown,
                lookups |-> Append(acc.lookups,
                              [ file |-> uploaded_file, hit |-> r.hit,
                                pdf_text |-> pdf_text ]) ])

\* generate_text(uploaded_files, job_description) run against the cache store.
\* pdfOk[i]: the PdfReader succeeds if file i is actually read; genOk: the
\* generation call succeeds, with response.text = reply.  There is no
\* try/except around the generation call: a failure leaves the function as
\* an exception (raised).
generate_text(uploaded_files, job_description, store, pdfOk, genOk, reply) ==
    LET loop == ForEachFile(uploaded_files, pdfOk, 1,
                    [ store |-> store, combined_pdf_text |-> "", file_hashes |-> <<>>,
                      shown |-> <<>>, lookups |-> <<>> ])
        combined_pdf_text == loop.combined_pdf_text
        prompt == AnalysisPrompt(job_description, combined_pdf_text)
    IN  IF combined_pdf_text # ""
        THEN [ store |-> loop.store, lookups |-> loop.lookups,
               prompt |-> prompt, raised |-> ~genOk,
               shown |-> loop.shown \o <<"Extracted Text: " \o combined_pdf_text>>
                         \o (IF genOk THEN <<reply>> ELSE <<>>) ]
        ELSE [ store |-> loop.store, lookups |-> loop.lookups,
               prompt |-> NoCall, raised |-> FALSE,
               shown |-> loop.shown ]

\* Variant of the page without the "if uploaded_files" test.
AnalyzeClicked_unguarded(uploaded_files, job_description, store, pdfOk, genOk, reply) ==
    generate_text(uploaded_files, job_description, store, pdfOk, genOk, reply)

\* The "Job Description Analysis" page when the Analyze button is clicked.
AnalyzeClicked(uploaded_files, job_description, store, pdfOk, genOk, reply) ==
    IF uploaded_files # <<>>
    THEN generate_text(uploaded_files, job_description, store, pdfOk, genOk, reply)
    ELSE [ store |-> store, lookups |-> <<>>, prompt |-> NoCall, raised |-> FALSE,
           shown |-> <<UploadError>> ]

(***************************************************************************)
(* chatbot (virtual assistant).                                            *)
(***************************************************************************)
Turn(role, message) == [role |-> role, message |-> message]

\* "\n".join(f"{entry['role']}: {entry['message']}" for entry in history)
conversation_context(history) ==
    join("\n", [i \in 1..Len(history) |-> history[i].role \o ": " \o history[i].message])

\* Variants of chatbot, each with one plausible slip.
\* (1) the fallback message is logged as a Bot turn when the call fails
chatbot_logs_fallback(history, has, user_input, genOk, reply) ==
    LET initial == IF has THEN history ELSE <<>>
        withUser == Append(initial, Turn("User", user_input))
        prompt == conversation_context(withUser) \o "\nBot:"
        bot_response == strip(reply)
    IN  IF genOk
        THEN [ history |-> Append(withUser, Turn("Bot", bot_response)),
               prompt |-> prompt, ret |-> bot_response, shown |-> <<>> ]
        ELSE [ history |-> Append(withUser, Turn("Bot", Fallback)),
               prompt |-> prompt, ret |-> Fallback,
               shown |-> <<"Error with chatbot: " \o GenError>> ]

\* (2) the log is re-initialised on every call (no "not in st.session_state" test)
chatbot_resets_log(history, has, user_input, genOk, reply) ==
    LET initial == <<>>
        withUser == Append(initial, Turn("User", user_input))
        prompt == conversation_context(withUser) \o "\nBot:"
        bot_response == strip(reply)
    IN  IF genOk
        THEN [ history |-> Append(withUser, Turn("Bot", bot_response)),
               prompt |-> prompt, ret |-> bot_response, shown |-> <<>> ]
        ELSE [ history |-> withUser,
               prompt |-> prompt, ret |-> Fallback,
               shown |-> <<"Error with chatbot: " \o GenError>> ]

\* (3) the user turn goes into the prompt but is never appended to the log
chatbot_skips_user_turn(history, has, user_input, genOk, reply) ==
    LET initial == IF has THEN history ELSE <<>>
        withUser == Append(initial, Turn("User", user_input))
        prompt == conversation_context(withUser) \o "\nBot:"
        bot_response == strip(reply)
    IN  IF genOk
        THEN [ history |-> Append(initial, Turn("Bot", bot_response)),
               prompt |-> prompt, ret |-> bot_response, shown |-> <<>> ]
        ELSE [ history |-> initial,
               prompt |-> prompt, ret |-> Fallback,
               shown |-> <<"Error with chatbot: " \o GenError>> ]

\* (4) the context is rendered before the user turn is appended
chatbot_renders_first(history, has, user_input, genOk, reply) ==
    LET initial == IF has THEN history ELSE <<>>
        withUser == Append(initial, Turn("User", user_input))
        prompt == conversation_context(initial) \o "\nBot:"
        bot_response == strip(reply)
    IN  IF genOk
        THEN [ history |-> Append(withUser, Turn("Bot", bot_response)),
               prompt |-> prompt, ret |-> bot_response, shown |-> <<>> ]
        ELSE [ history |-> withUser,
               prompt |-> prompt, ret |-> Fallback,
               shown |-> <<"Error with chatbot: " \o GenError>> ]

\* chatbot(user_input) on a session whose log is history (has: the key
\* 'conversation_history' is in st.session_state).  genOk: the generation
\* call succeeds, with response.text = reply.
chatbot(history, has, user_input, genOk, reply) ==
    LET initial == IF has THEN history ELSE <<>>
        withUser == Append(initial, Turn("User", user_input))
        prompt == conversation_context(withUser) \o "\nBot:"
        bot_response == strip(reply)
    IN  IF genOk
        THEN [ history |-> Append(withUser, Turn("Bot", bot_response)),
               prompt |-> prompt, ret |-> bot_response, shown |-> <<>> ]
        ELSE [ history |-> withUser,
               prompt |-> prompt, ret |-> Fallback,
               shown |-> <<"Error with chatbot: " \o GenError>> ]

\* One conversation bubble of the history display.
Bubble(entry) ==
    IF entry.role = "User"
    THEN "<b>User:</b> " \o entry.message
    ELSE "<b>Bot:</b> " \o entry.message

\* The history display at the end of the "virtual assistant" page.
HistoryDisplay(has, history) ==
    IF has
    THEN <<"### Conversation History">> \o [i \in 1..Len(history) |-> Bubble(history[i])]
    ELSE <<>>

(***************************************************************************)
(* Script runs.                                                            *)
(***************************************************************************)
\* What the uploader can hold when Analyze is clicked: up to MaxFiles of the
\* files, in upload order, each upload once.
FileLists ==
    { l \in UNION { [1..n -> UploadedFiles] : n \in 0..MaxFiles } :
        \A i, j \in DOMAIN l : l[i] = l[j] => i = j }

Init ==
    /\ cache = [k \in CacheKeys |-> Absent]
    /\ storedBy = [k \in CacheKeys |-> "-"]
    /\ pdfReaderCalls = [s \in Sessions |-> [c \in Contents |-> 0]]
    /\ has_history = [s \in Sessions |-> FALSE]
    /\ conversation_history = [s \in Sessions |-> <<>>]
    /\ last = [ op |-> "start", sid |-> "-", input |-> "", uploaded_files |-> <<>>,
                lookups |-> <<>>, prompt |-> NoCall, genFailed |-> FALSE,
                raised |-> FALSE, shown |-> <<>>, ret |-> None ]

\* PdfReader invocations on content c among the lookups of one script run
Invocations(lookups, c) ==
    Cardinality({ i \in 1..Len(lookups) : ~lookups[i].hit /\ lookups[i].file.content = c })

\* The outcome pdfOk[i] is consulted only when file i is actually read: its
\* key is neither in the store nor put there by an earlier file of the same
\* request.  Outcomes never consulted are fixed to TRUE, so that one run is
\* not enumerated once per unused choice.
Consulted(uploaded_files, store, pdfOk) ==
    \A i \in 1..Len(uploaded_files) :
        (\/ store[CacheKey(uploaded_files[i])] # Absent
         \/ \E j \in 1..(i - 1) : CacheKey(uploaded_files[j]) = CacheKey(uploaded_files[i]))
        => pdfOk[i]

\* Session s clicks Analyze on the "Job Description Analysis" page.
JobDescriptionAnalysisPage(s) ==
    \E uploaded_files \in FileLists, job_description \in JobDescriptions,
       genOk \in BOOLEAN, reply \in AnalysisReplies :
    \E pdfOk \in [1..Len(uploaded_files) -> BOOLEAN] :
      /\ Consulted(uploaded_files, cache, pdfOk)
      /\ \E r \in {AnalyzeClicked(uploaded_files, job_description, cache, pdfOk, genOk, reply)} :
           /\ (r.prompt = NoCall => genOk)
           /\ cache' = r.store
           /\ storedBy' = [k \in CacheKeys |->
                             IF cache[k] = Absent /\ r.store[k] # Absent THEN s ELSE storedBy[k]]
           /\ pdfReaderCalls' = [pdfReaderCalls EXCEPT ![s] =
                                   [c \in Contents |-> @[c] + Invocations(r.lookups, c)]]
           /\ last' = [ op |-> "analyze", sid |-> s, input |-> job_description,
                        uploaded_files |-> uploaded_files, lookups |-> r.lookups,
                        prompt |-> r.prompt, genFailed |-> (r.prompt # NoCall /\ ~genOk),
                        raised |-> r.raised, shown |-> r.shown, ret |-> None ]
           /\ UNCHANGED <<has_history, conversation_history>>

\* Session s runs the "virtual assistant" page with user_input in the text
\* box; an empty box only redisplays the history.
VirtualAssistantPage(s) ==
    \E user_input \in UserInputs \cup {""}, genOk \in BOOLEAN, reply \in ChatReplies :
      /\ (user_input = "" => genOk)
      /\ IF user_input # ""
         THEN LET r == chatbot(conversation_history[s], has_history[s], user_input, genOk, reply) IN
              /\ Len(r.history) <= MaxTurns
              /\ has_history' = [has_history EXCEPT ![s] = TRUE]
              /\ conversation_history' = [conversation_history EXCEPT ![s] = r.history]
              /\ last' = [ op |-> "chat", sid |-> s, input |-> user_input,
                           uploaded_files |-> <<>>, lookups |-> <<>>,
                           prompt |-> r.prompt, genFailed |-> ~genOk, raised |-> FALSE,
                           shown |-> r.shown \o <<"Chatbot: " \o r.ret>>
                                     \o HistoryDisplay(TRUE, r.history),
                           ret |-> r.ret ]
              /\ UNCHANGED <<cache, storedBy, pdfReaderCalls>>
         ELSE /\ last' = [ op |-> "display", sid |-> s, input |-> "",
                           uploaded_files |-> <<>>, lookups |-> <<>>,
                           prompt |-> NoCall, genFailed |-> FALSE, raised |-> FALSE,
                           shown |-> HistoryDisplay(has_history[s], conversation_history[s]),
                           ret |-> None ]
              /\ UNCHANGED <<cache, storedBy, pdfReaderCalls, has_history, conversation_history>>

Next == \E s \in Sessions : JobDescriptionAnalysisPage(s) \/ VirtualAssistantPage(s)

Spec == Init /\ [][Next]_vars

\* The two pages share no state (the cache belongs to one, the logs to the
\* other), so each page is also explored on its own.
NextAnalysis == \E s \in Sessions : JobDescriptionAnalysisPage(s)
SpecAnalysis == Init /\ [][NextAnalysis]_vars

NextOneSession == JobDescriptionAnalysisPage("A")
SpecOneSession == Init /\ [][NextOneSession]_vars

NextChat == \E s \in Sessions : VirtualAssistantPage(s)
SpecChat == Init /\ [][NextChat]_vars

(***************************************************************************)
(* Properties.                                                             *)
(***************************************************************************)
LastLookups == 1..Len(last.lookups)

\* C1: a failed extraction is never cached: no call of extract_text_from_pdf
\* is answered from the cache with the failure result (None, None); a call
\* for content that failed before reads the document again.
C1_FailureNeverCached ==
    \A i \in LastLookups : last.lookups[i].hit => last.lookups[i].pdf_text # None

\* C2: within one session the PDF reader is invoked at most once for each
\* file content, however often that content is uploaded.
C2_ExtractedOncePerContent ==
    \A s \in Sessions : \A c \in Contents : pdfReaderCalls[s][c] <= 1

\* C3: when the generation call fails during chatbot(user_input), the log
\* afterwards is the log before with exactly one {User, user_input} turn
\* appended and no Bot turn, and chatbot returns the fixed fallback message.
C3_FailedChatKeepsUserTurn ==
    [][ (last'.op = "chat" /\ last'.genFailed)
        => /\ conversation_history'[last'.sid]
                = Append(conversation_history[last'.sid], Turn("User", last'.input))
           /\ last'.ret = "Sorry, I couldn't process that request." ]_vars

C3_Witness ==
    /\ last.op = "chat" /\ last.genFailed
    /\ Len(conversation_history[last.sid]) = 3
    /\ conversation_history[last.sid][2].role = "Bot"

\* C4: session isolation: a lookup by one session is never answered by a
\* cache entry (result or failure) that another session stored.
C4_CacheHitsAreOwn ==
    \A i \in LastLookups :
        last.lookups[i].hit => storedBy[CacheKey(last.lookups[i].file)] = last.sid

\* C5: a generation failure never leaves the handler as an exception and the
\* user is shown the apology, on the Analyze path as on the chat path.
C5_GenerationFailureRecovered ==
    last.genFailed
    => /\ ~last.raised
       /\ \E i \in 1..Len(last.shown) : last.shown[i] = "Chatbot: " \o Fallback

\* C6: the conversation log starts empty and is append-only: across every
\* script run the log before is a prefix of the log after, in every session.
C6_LogAppendOnly ==
    /\ \A s \in Sessions : conversation_history[s] = <<>>
    /\ [][ \A s \in Sessions :
             IsPrefix(conversation_history[s], conversation_history'[s]) ]_vars

C6_Witness ==
    /\ last.op = "display"
    /\ Len(conversation_history[last.sid]) = 3
    /\ last.shown = <<"### Conversation History", "<b>User:</b> hi",
                      "<b>Bot:</b> hello", "<b>User:</b> bye">>

\* C7: every Bot turn of a session's log has a User turn at an earlier position.
C7_BotAfterUser ==
    \A s \in Sessions : \A i \in 1..Len(conversation_history[s]) :
        conversation_history[s][i].role = "Bot"
        => \E j \in 1..(i - 1) : conversation_history[s][j].role = "User"

C7_Witness ==
    \E s \in Sessions : \E i \in 1..Len(conversation_history[s]) :
        conversation_history[s][i].role = "Bot"

\* C8: Analyze with zero uploaded files shows the error "Please upload at
\* least one PDF file." and makes no extraction call and no generation call.
C8_NoFilesRejected ==
    (last.op = "analyze" /\ last.uploaded_files = <<>>)
    => /\ last.shown = <<"Please upload at least one PDF file.">>
       /\ last.lookups = <<>>
       /\ last.prompt = NoCall

C8_Witness ==
    /\ last.op = "analyze" /\ last.uploaded_files = <<>>
    /\ \E k \in CacheKeys : cache[k] # Absent

\* The texts an Analyze request must put into the prompt: one per file with
\* non-empty extracted text, in upload order, each followed by a blank line.
RECURSIVE ResumeContent(_)
ResumeContent(lookups) ==
    IF lookups = <<>> THEN ""
    ELSE LET l == lookups[Len(lookups)]
             before == ResumeContent(SubSeq(lookups, 1, Len(lookups) - 1))
         IN IF l.pdf_text # None /\ l.pdf_text # "" THEN before \o l.pdf_text \o "\n\n"
            ELSE before

\* C9: an extraction failure does not abort the Analyze request: every
\* uploaded file is looked up, and when some file has non-empty text the
\* generation call is made with the texts of all such files, in upload order.
C9_FailureDoesNotAbort ==
    last.op = "analyze"
    => /\ Len(last.lookups) = Len(last.uploaded_files)
       /\ \A i \in LastLookups : last.lookups[i].file = last.uploaded_files[i]
       /\ \A i \in LastLookups :
            ~last.lookups[i].hit =>
                last.lookups[i].pdf_text \in
                    {None, join("", PageTexts[last.uploaded_files[i].content])}
       /\ (\E i \in LastLookups : Truthy(last.lookups[i].pdf_text))
          => last.prompt = AnalysisPrompt(last.input, ResumeContent(last.lookups))

C9_Witness ==
    /\ last.op = "analyze" /\ Len(last.uploaded_files) = 2
    /\ ~last.lookups[1].hit /\ last.lookups[1].pdf_text = None
    /\ ~last.lookups[2].hit /\ last.lookups[2].pdf_text = "Rust"
    /\ last.prompt = AnalysisPrompt("Backend dev", "Rust\n\n")

\* One "<role>: <message>" line per turn, in insertion order, built turn by turn.
RECURSIVE RenderedLog(_)
RenderedLog(log) ==
    IF log = <<>> THEN ""
    ELSE LET t == log[Len(log)]
             line == t.role \o ": " \o t.message
         IN IF Len(log) = 1 THEN line
            ELSE RenderedLog(SubSeq(log, 1, Len(log) - 1)) \o "\n" \o line

\* C10: in a chat turn the user turn is appended first, then the context is
\* rendered and sent, then the Bot turn is appended: the context sent is the
\* rendering of the old log plus the new user turn (its last line), and the
\* log afterwards starts with exactly those turns.
C10_ContextAfterUserAppend ==
    [][ last'.op = "chat"
        => LET withUser == Append(conversation_history[last'.sid],
                                  Turn("User", last'.input))
           IN /\ last'.prompt = RenderedLog(withUser) \o "\nBot:"
              /\ IsPrefix(withUser, conversation_history'[last'.sid])
              /\ Len(conversation_history'[last'.sid]) <= Len(withUser) + 1 ]_vars

C10_Witness ==
    /\ last.op = "chat"
    /\ last.prompt = "User: hi\nBot: hello\nUser: bye\nBot:"
    /\ Len(conversation_history[last.sid]) = 3

====
